---------------------------- MODULE Spec2Model ----------------------------
(***************************************************************************)
(* Model of the edge-function and secret store of supafast-mcp             *)
(* (src/src/tools/edge-functions.ts).                                      *)
(*                                                                         *)
(* Strings are sequences of one-character strings, so that the env-file    *)
(* codec (split, trim, indexOf, slice, replace) is computed character by   *)
(* character as the code computes it.  A JavaScript Map<string,string> is  *)
(* a sequence of <<key, value>> pairs with distinct keys, in insertion     *)
(* order.                                                                  *)
(***************************************************************************)
EXTENDS Integers, Sequences, FiniteSets, TLC

VARIABLES
    rootState,   \* process.env.SUPABASE_FUNCTIONS_DIR: "unset", "missing" (set, not on disk), "ok"
    envFile,     \* <functions-dir>/.env : [exists, content]
    fns,         \* <functions-dir>/<name>/ : [dir, index, importMap] per name
    call,        \* the tool invocation serviced last: [tool, key, value, name, source, importMap]
    result,      \* the envelope it returned
    events,      \* the filesystem and process calls it made, in order
    escaped,     \* whether it threw past its own boundary, into the dispatcher
    pending,     \* the invoke_edge_function call awaiting the backend client
    expectedEnv, \* history: the mapping the successful Set/Delete calls describe
    deleted,     \* history: names deleted successfully and not deployed since
    codecIn,     \* codec specification: the mapping handed to serializeEnvFile
    codecText,   \* codec specification: the text serializeEnvFile returned
    codecOut,    \* codec specification: the mapping parseEnvFile returned
    codecPc,     \* codec specification: "start", "serialized", "parsed"
    reqs,        \* request specification: the invocations in flight, step by step
    writeLog,    \* request specification, history: the requests that wrote .env, in order
    outside,     \* what the handlers left outside the directories of the functions
    deployed     \* path specification, history: names deployed and not deleted since

vars == <<rootState, envFile, fns, call, result, events, escaped, pending,
          expectedEnv, deleted, codecIn, codecText, codecOut, codecPc, reqs, writeLog,
          outside, deployed>>

storeVars == <<rootState, envFile, fns, call, result, events, escaped, pending,
               expectedEnv, deleted>>
codecVars == <<codecIn, codecText, codecOut, codecPc>>
reqVars == <<reqs, writeLog>>
pathVars == <<outside, deployed>>

-----------------------------------------------------------------------------
(* Bounds *)

\* Longest .env content a Set/Delete may leave behind (escaping grows values
\* on every rewrite, so the store is capped here).
MaxFileLen == 18

\* Most entries of a mapping handed to the codec specification.
MaxEntries == 2

-----------------------------------------------------------------------------
(* Characters and JavaScript string primitives *)

DQ == "\""
SQ == "'"
BS == "\\"
NL == "\n"
SP == " "
EQ == "="
HASH == "#"
DOLLAR == "$"

Upper == {"A","B","C","D","E","F","G","H","I","J","K","L","M",
          "N","O","P","Q","R","S","T","U","V","W","X","Y","Z"}
Lower == {"a","b","c","d","e","f","g","h","i","j","k","l","m",
          "n","o","p","q","r","s","t","u","v","w","x","y","z"}
Digit == {"0","1","2","3","4","5","6","7","8","9"}

\* \s of a JavaScript regular expression, and what String.prototype.trim strips
Whitespace == {SP, NL, "\t", "\r", "\f"}

Min(a, b) == IF a <= b THEN a ELSE b

Range(s) == {s[i] : i \in 1..Len(s)}

SetMin(S) == CHOOSE x \in S : \A y \in S : x <= y
SetMax(S) == CHOOSE x \in S : \A y \in S : y <= x

\* s.trim()
trim(s) ==
    LET keep == {i \in 1..Len(s) : s[i] \notin Whitespace}
    IN  IF keep = {} THEN <<>> ELSE SubSeq(s, SetMin(keep), SetMax(keep))

\* s.indexOf(c), 1-based; 0 where JavaScript returns -1
indexOf(s, c) ==
    LET at == {i \in 1..Len(s) : s[i] = c}
    IN  IF at = {} THEN 0 ELSE SetMin(at)

\* s.split('\n')
RECURSIVE split(_)
split(s) ==
    LET i == indexOf(s, NL)
    IN  IF i = 0 THEN <<s>>
        ELSE <<SubSeq(s, 1, i - 1)>> \o split(SubSeq(s, i + 1, Len(s)))

startsWith(s, c) == Len(s) > 0 /\ s[1] = c
endsWith(s, c) == Len(s) > 0 /\ s[Len(s)] = c

\* s.replace(/c/g, r)
RECURSIVE replaceAll(_, _, _)
replaceAll(s, c, r) ==
    IF s = <<>> THEN <<>>
    ELSE (IF Head(s) = c THEN r ELSE <<Head(s)>>) \o replaceAll(Tail(s), c, r)

\* lines.join('\n')
RECURSIVE join(_)
join(lines) ==
    IF lines = <<>> THEN <<>>
    ELSE IF Len(lines) = 1 THEN lines[1]
    ELSE lines[1] \o <<NL>> \o join(Tail(lines))

-----------------------------------------------------------------------------
(* Map<string, string> *)

MapKeys(env) == {env[i][1] : i \in 1..Len(env)}
MapHas(env, key) == key \in MapKeys(env)
MapIndex(env, key) == CHOOSE i \in 1..Len(env) : env[i][1] = key
MapGet(env, key) == env[MapIndex(env, key)][2]

\* env.delete(key) followed by env.set(key, value): the key moves to the end
MapSet_MovesToEnd(env, key, value) ==
    Append(SelectSeq(env, LAMBDA e : e[1] # key), <<key, value>>)

\* env.set(key, value): an existing key keeps its position
MapSet(env, key, value) ==
    IF MapHas(env, key)
    THEN [env EXCEPT ![MapIndex(env, key)] = <<key, value>>]
    ELSE Append(env, <<key, value>>)

\* env.delete(key), dropping the entries after the key as well
MapDelete_Truncates(env, key) ==
    IF MapHas(env, key) THEN SubSeq(env, 1, MapIndex(env, key) - 1) ELSE env

\* env.delete(key)
MapDelete(env, key) ==
    IF MapHas(env, key)
    THEN SubSeq(env, 1, MapIndex(env, key) - 1)
         \o SubSeq(env, MapIndex(env, key) + 1, Len(env))
    ELSE env

-----------------------------------------------------------------------------
(* Env-file codec *)

\* the body of parseEnvFile's loop for one line
parseLine(env, line) ==
    LET trimmed == trim(line)
        eqIndex == indexOf(trimmed, EQ)
        key     == trim(SubSeq(trimmed, 1, eqIndex - 1))
        raw     == trim(SubSeq(trimmed, eqIndex + 1, Len(trimmed)))
        value   == IF \/ (startsWith(raw, DQ) /\ endsWith(raw, DQ))
                      \/ (startsWith(raw, SQ) /\ endsWith(raw, SQ))
                   THEN SubSeq(raw, 2, Len(raw) - 1)    \* value.slice(1, -1)
                   ELSE raw
    IN  IF trimmed = <<>> \/ startsWith(trimmed, HASH) THEN env
        ELSE IF eqIndex = 0 THEN env
        ELSE MapSet(env, key, value)

RECURSIVE parseLines(_, _)
parseLines(env, lines) ==
    IF lines = <<>> THEN env
    ELSE parseLines(parseLine(env, Head(lines)), Tail(lines))

parseEnvFile(content) == parseLines(<<>>, split(content))

\* /[\s#"'\\$]/.test(value)
needsQuote(value) ==
    \E i \in 1..Len(value) : value[i] \in Whitespace \cup {HASH, DQ, SQ, BS, DOLLAR}

\* value.replace(/"/g, '\\"').replace(/\\/g, '\\\\'), the two replacements swapped
escapeValue_QuotesFirst(value) ==
    replaceAll(replaceAll(value, DQ, <<BS, DQ>>), BS, <<BS, BS>>)

\* value.replace(/\\/g, '\\\\').replace(/"/g, '\\"')
escapeValue(value) == replaceAll(replaceAll(value, BS, <<BS, BS>>), DQ, <<BS, DQ>>)

serializeEntry(entry) ==
    IF needsQuote(entry[2])
    THEN entry[1] \o <<EQ, DQ>> \o escapeValue(entry[2]) \o <<DQ>>
    ELSE entry[1] \o <<EQ>> \o entry[2]

serializeEnvFile(env) ==
    join([i \in 1..Len(env) |-> serializeEntry(env[i])]) \o <<NL>>

-----------------------------------------------------------------------------
(* Inputs *)

\* secret keys: two that match /^[A-Za-z_][A-Za-z0-9_]*$/, and two that do not
ValidKeys == {<<"A">>, <<"_", "1">>}
InvalidKeys == {<<"1", "A">>, <<"A", "-">>}
Keys == ValidKeys \cup InvalidKeys

\* secret values handed to set_secret
Values ==
    { <<>>,                     \* the empty string, shorter than three characters
      <<"a", "b", "c">>,        \* exactly three characters
      <<"a", "b", "c", "d">>,   \* longer than three characters
      <<"a", SP, "b">>,         \* quoted on write
      <<DQ>>,                   \* quoted and escaped on write
      <<NL, "_", "1", EQ>> }    \* a line break followed by the text of an entry

\* values of the mappings handed to the codec specification
CodecValues ==
    Values \cup
    { <<"a">>, <<BS>>, <<SQ>>, <<HASH>>, <<DOLLAR, "a">>, <<SP, "a", SP>>,
      <<"a", NL, "b">>, <<"a", DQ, "b">>, <<SQ, "a", SQ>>, <<"a", EQ, "b">>,
      <<BS, DQ>> }

\* ordered mappings with distinct valid keys and at most MaxEntries entries
Mappings(n) ==
    { env \in UNION {[1..k -> ValidKeys \X CodecValues] : k \in 0..n} :
        \A i, j \in 1..Len(env) : i # j => env[i][1] # env[j][1] }

-----------------------------------------------------------------------------
(* Codec specification: serializeEnvFile, then parseEnvFile, on one mapping *)

InitCodecVars ==
    /\ codecIn = <<>>
    /\ codecText = <<>>
    /\ codecOut = <<>>
    /\ codecPc = "start"

Serialize ==
    /\ codecPc = "start"
    /\ codecText' = serializeEnvFile(codecIn)
    /\ codecPc' = "serialized"
    /\ UNCHANGED <<codecIn, codecOut>>

Parse ==
    /\ codecPc = "serialized"
    /\ codecOut' = parseEnvFile(codecText)
    /\ codecPc' = "parsed"
    /\ UNCHANGED <<codecIn, codecText>>

-----------------------------------------------------------------------------
(* Store inputs and values *)

Names == {"f", "g"}
Sources == {"s1", "s2"}

\* the importMap argument: absent, {} or a non-empty Record<string, string>
NoImportMap == [defined |-> FALSE, imports |-> {}]
ImportMaps ==
    { NoImportMap,
      [defined |-> TRUE, imports |-> {}],
      [defined |-> TRUE, imports |-> {<<"std", "u1">>}],
      [defined |-> TRUE, imports |-> {<<"std", "u2">>}] }

NoTextFile == [exists |-> FALSE, content |-> <<>>]
NoSourceFile == [exists |-> FALSE, content |-> ""]
NoJsonFile == [exists |-> FALSE, content |-> {}]
NoFunction == [dir |-> FALSE, index |-> NoSourceFile, importMap |-> NoJsonFile]

\* the character the listing masks with (U+2022 in the source)
MASK == "*"

\* error messages
ErrNotSet == "SUPABASE_FUNCTIONS_DIR not set in environment"
ErrNoDir == "Functions directory not found"
ErrInvalidKey == "Invalid key name. Use letters, numbers, and underscores only."
ErrNoSecretsFile == "No secrets file exists"
ErrSecretNotFound == "Secret not found"
ErrFunctionNotFound == "Function not found"
ErrENOENT == "ENOENT: no such file or directory"
ErrRange == "Invalid count value"
ErrIO == "EIO: i/o error"
ErrRestart == "Command failed: sudo docker restart supabase-edge-functions"
ErrDestructure == "TypeError: Cannot destructure property of undefined"
ErrConnection == "connection not available"
ErrBackend == "backend error"

\* the envelope of section 4.5; message is "" or the word the message varies in
Failure(err) ==
    [success |-> FALSE, error |-> err, message |-> "", restarted |-> FALSE,
     secrets |-> <<>>, functions |-> {}]

Success(msg) ==
    [success |-> TRUE, error |-> "", message |-> msg, restarted |-> FALSE,
     secrets |-> <<>>, functions |-> {}]

\* hasArgs is FALSE when the request carried no arguments object
NoCall ==
    [tool |-> "none", hasArgs |-> TRUE, key |-> <<>>, value |-> <<>>, name |-> "",
     source |-> "", importMap |-> NoImportMap]

NoPending == [active |-> FALSE, name |-> ""]

\* nothing written in the functions directory itself or in its parent, which exists
NoOutside == [rootFiles |-> {}, parentFiles |-> {}, parent |-> TRUE]

\* a call that threw is followed by "threw" in the log
Threw == "threw"

-----------------------------------------------------------------------------
(* Helpers of the handlers *)

\* (mutant) the existence of the directory is not checked
getFunctionsDir_NoExistsCheck ==
    IF rootState = "unset"
    THEN [threw |-> TRUE, error |-> ErrNotSet, events |-> <<>>]
    ELSE [threw |-> FALSE, error |-> "", events |-> <<>>]

\* getFunctionsDir: throws unless the variable is set and the directory exists
getFunctionsDir ==
    IF rootState = "unset"
    THEN [threw |-> TRUE, error |-> ErrNotSet, events |-> <<>>]
    ELSE IF rootState = "missing"
    THEN [threw |-> TRUE, error |-> ErrNoDir, events |-> <<"existsSync:dir">>]
    ELSE [threw |-> FALSE, error |-> "", events |-> <<"existsSync:dir">>]

\* (mutant) the failure of the restart command is not caught
restartEdgeRuntime_Throws(execOk) ==
    [threw |-> ~execOk, ret |-> TRUE,
     events |-> IF execOk THEN <<"execSync:restart">> ELSE <<"execSync:restart", Threw>>]

\* (mutant) the restart command is never run
restartEdgeRuntime_Skipped(execOk) ==
    [threw |-> FALSE, ret |-> TRUE, events |-> <<>>]

\* restartEdgeRuntime: execSync's failure or timeout is caught and returned as false
restartEdgeRuntime(execOk) ==
    [threw |-> FALSE, ret |-> execOk,
     events |-> IF execOk THEN <<"execSync:restart">> ELSE <<"execSync:restart", Threw>>]

\* (mutant) only the first character of the key is tested
ValidKey_FirstOnly(key) ==
    /\ Len(key) >= 1
    /\ key[1] \in Upper \cup Lower \cup {"_"}

\* /^[A-Za-z_][A-Za-z0-9_]*$/.test(key)
ValidKey(key) ==
    /\ Len(key) >= 1
    /\ key[1] \in Upper \cup Lower \cup {"_"}
    /\ \A i \in 2..Len(key) : key[i] \in Upper \cup Lower \cup Digit \cup {"_"}

\* c.repeat(n): a RangeError for a negative count
repeat(c, n) ==
    IF n < 0 THEN [threw |-> TRUE, ret |-> <<>>]
    ELSE [threw |-> FALSE, ret |-> [i \in 1..n |-> c]]

\* value.slice(0, 3) + MASK.repeat(Math.min(value.length - 3, 20))
maskValue(value) ==
    LET tail == repeat(MASK, Min(Len(value) - 3, 20))
    IN  [threw |-> tail.threw, ret |-> SubSeq(value, 1, Min(3, Len(value))) \o tail.ret]

\* (mutant) no import map is written
writesImportMap_Never(importMap) == FALSE

\* (mutant) an empty import map is written too
writesImportMap_Defined(importMap) == importMap.defined

\* importMap && Object.keys(importMap).length > 0
writesImportMap(importMap) ==
    importMap.defined /\ Cardinality({p[1] : p \in importMap.imports}) > 0

-----------------------------------------------------------------------------
(* Secret store handlers, as functions of the state and the inputs:         *)
(* fault names the one call, if any, that throws in this invocation        *)
(* ("execSync": the restart command fails or times out).                    *)

Out(file, res, evs) == [file |-> file, result |-> res, events |-> evs]

SetSecret(key, value, fault) ==
    IF ~ValidKey(key) THEN Out(envFile, Failure(ErrInvalidKey), <<>>)
    ELSE
    LET d == getFunctionsDir
        ev1 == d.events \o <<"existsSync:.env">>
        ev2 == IF envFile.exists THEN ev1 \o <<"readFileSync:.env">> ELSE ev1
        env0 == IF envFile.exists THEN parseEnvFile(envFile.content) ELSE <<>>
        existed == MapHas(env0, key)
        env1 == MapSet(env0, key, value)
        ev3 == ev2 \o <<"writeFileSync:.env">>
        written == [exists |-> TRUE, content |-> serializeEnvFile(env1)]
        r == restartEdgeRuntime(fault # "execSync")
    IN  IF d.threw THEN Out(envFile, Failure(d.error), d.events)
        ELSE IF envFile.exists /\ fault = "readFileSync"
        THEN Out(envFile, Failure(ErrIO), ev2 \o <<Threw>>)
        ELSE IF fault = "writeFileSync"
        THEN Out(envFile, Failure(ErrIO), ev3 \o <<Threw>>)
        ELSE IF r.threw
        THEN Out(written, Failure(ErrRestart), ev3 \o r.events)
        ELSE Out(written,
                 [Success(IF existed THEN "updated" ELSE "created")
                     EXCEPT !.restarted = r.ret],
                 ev3 \o r.events)

DeleteSecret(key, fault) ==
    LET d == getFunctionsDir
        ev1 == d.events \o <<"existsSync:.env">>
        ev2 == ev1 \o <<"readFileSync:.env">>
        env0 == parseEnvFile(envFile.content)
        env1 == MapDelete(env0, key)
        ev3 == ev2 \o <<"writeFileSync:.env">>
        written == [exists |-> TRUE, content |-> serializeEnvFile(env1)]
        r == restartEdgeRuntime(fault # "execSync")
    IN  IF d.threw THEN Out(envFile, Failure(d.error), d.events)
        ELSE IF ~envFile.exists THEN Out(envFile, Failure(ErrNoSecretsFile), ev1)
        ELSE IF fault = "readFileSync"
        THEN Out(envFile, Failure(ErrIO), ev2 \o <<Threw>>)
        ELSE IF ~MapHas(env0, key) THEN Out(envFile, Failure(ErrSecretNotFound), ev2)
        ELSE IF fault = "writeFileSync"
        THEN Out(envFile, Failure(ErrIO), ev3 \o <<Threw>>)
        ELSE IF r.threw
        THEN Out(written, Failure(ErrRestart), ev3 \o r.events)
        ELSE Out(written, [Success("deleted") EXCEPT !.restarted = r.ret],
                 ev3 \o r.events)

\* the listing made from the mapping the earlier calls built, not from the file
ListSecrets_FromHistory(fault) ==
    LET d == getFunctionsDir
        ev1 == d.events \o <<"existsSync:.env">>
        ev2 == ev1 \o <<"readFileSync:.env">>
        env == expectedEnv
        masked == [i \in 1..Len(env) |-> maskValue(env[i][2])]
        secrets == [i \in 1..Len(env) |->
                       [key |-> env[i][1], value |-> masked[i].ret,
                        length |-> Len(env[i][2])]]
    IN  IF d.threw THEN Out(envFile, Failure(d.error), d.events)
        ELSE IF ~envFile.exists
        THEN Out(envFile, Success("No secrets configured"), ev1)
        ELSE IF fault = "readFileSync"
        THEN Out(envFile, Failure(ErrIO), ev2 \o <<Threw>>)
        ELSE IF \E i \in 1..Len(env) : masked[i].threw
        THEN Out(envFile, Failure(ErrRange), ev2)
        ELSE Out(envFile, [Success("") EXCEPT !.secrets = secrets], ev2)

ListSecrets(fault) ==
    LET d == getFunctionsDir
        ev1 == d.events \o <<"existsSync:.env">>
        ev2 == ev1 \o <<"readFileSync:.env">>
        env == parseEnvFile(envFile.content)
        masked == [i \in 1..Len(env) |-> maskValue(env[i][2])]
        secrets == [i \in 1..Len(env) |->
                       [key |-> env[i][1], value |-> masked[i].ret,
                        length |-> Len(env[i][2])]]
    IN  IF d.threw THEN Out(envFile, Failure(d.error), d.events)
        ELSE IF ~envFile.exists
        THEN Out(envFile, Success("No secrets configured"), ev1)
        ELSE IF fault = "readFileSync"
        THEN Out(envFile, Failure(ErrIO), ev2 \o <<Threw>>)
        ELSE IF \E i \in 1..Len(env) : masked[i].threw
        THEN Out(envFile, Failure(ErrRange), ev2)
        ELSE Out(envFile, [Success("") EXCEPT !.secrets = secrets], ev2)

-----------------------------------------------------------------------------
(* Function store handlers, as functions of the state and the inputs.       *)
(* The path, verifyJWT, note and updatedAt fields of the results are left   *)
(* out; the per-entry calls of the listing are logged once.                 *)

FnOut(store, res, evs) == [fns |-> store, result |-> res, events |-> evs]

\* (mutant) a successful Deploy restarts the runtime as the secret handlers do
CreateEdgeFunction_Restarts(name, source, importMap, fault) ==
    LET d == getFunctionsDir
        ev1 == d.events \o <<"mkdirSync:fn">>
        made == [fns EXCEPT ![name].dir = TRUE]
        ev2 == ev1 \o <<"writeFileSync:index.ts">>
        sourced == [made EXCEPT ![name].index = [exists |-> TRUE, content |-> source]]
        ev3 == ev2 \o <<"writeFileSync:import_map.json">>
        mapped == [sourced EXCEPT ![name].importMap =
                      [exists |-> TRUE, content |-> importMap.imports]]
    IN  IF d.threw THEN FnOut(fns, Failure(d.error), d.events)
        ELSE IF fault = "mkdirSync" THEN FnOut(fns, Failure(ErrIO), ev1 \o <<Threw>>)
        ELSE IF fault = "writeFileSync:index.ts"
        THEN FnOut(made, Failure(ErrIO), ev2 \o <<Threw>>)
        ELSE IF ~writesImportMap(importMap)
        THEN FnOut(sourced, Success("deployed"), ev2 \o <<"execSync:restart">>)
        ELSE IF fault = "writeFileSync:import_map.json"
        THEN FnOut(sourced, Failure(ErrIO), ev3 \o <<Threw>>)
        ELSE FnOut(mapped, Success("deployed"), ev3 \o <<"execSync:restart">>)

CreateEdgeFunction(name, source, importMap, fault) ==
    LET d == getFunctionsDir
        ev1 == d.events \o <<"mkdirSync:fn">>
        made == [fns EXCEPT ![name].dir = TRUE]
        ev2 == ev1 \o <<"writeFileSync:index.ts">>
        sourced == [made EXCEPT ![name].index = [exists |-> TRUE, content |-> source]]
        ev3 == ev2 \o <<"writeFileSync:import_map.json">>
        mapped == [sourced EXCEPT ![name].importMap =
                      [exists |-> TRUE, content |-> importMap.imports]]
    IN  IF d.threw THEN FnOut(fns, Failure(d.error), d.events)
        ELSE IF fault = "mkdirSync" THEN FnOut(fns, Failure(ErrIO), ev1 \o <<Threw>>)
        ELSE IF fault = "writeFileSync:index.ts"
        THEN FnOut(made, Failure(ErrIO), ev2 \o <<Threw>>)
        ELSE IF ~writesImportMap(importMap) THEN FnOut(sourced, Success("deployed"), ev2)
        ELSE IF fault = "writeFileSync:import_map.json"
        THEN FnOut(sourced, Failure(ErrIO), ev3 \o <<Threw>>)
        ELSE FnOut(mapped, Success("deployed"), ev3)

ListEdgeFunctions(fault) ==
    LET d == getFunctionsDir
        ev1 == d.events \o <<"readdirSync:dir">>
        dirs == {n \in Names : fns[n].dir}
        ev2 == IF dirs = {} THEN ev1
               ELSE ev1 \o <<"existsSync:index.ts", "existsSync:import_map.json",
                             "statSync:index.ts">>
        entries == {[name |-> n, hasIndex |-> fns[n].index.exists,
                     hasImportMap |-> fns[n].importMap.exists] : n \in dirs}
    IN  IF d.threw THEN FnOut(fns, Failure(d.error), d.events)
        ELSE IF fault = "readdirSync" THEN FnOut(fns, Failure(ErrIO), ev1 \o <<Threw>>)
        ELSE IF \E n \in dirs : ~fns[n].index.exists
        THEN FnOut(fns, Failure(ErrENOENT), ev2 \o <<Threw>>)
        ELSE FnOut(fns, [Success("") EXCEPT !.functions = entries], ev2)

\* (mutant) the files are removed and the directory is left
rmSync_KeepsDir(store, name) == [store EXCEPT ![name] = [NoFunction EXCEPT !.dir = TRUE]]

\* fs.rmSync(fnDir, { recursive: true, force: true })
rmSync(store, name) == [store EXCEPT ![name] = NoFunction]

DeleteEdgeFunction(name, fault) ==
    LET d == getFunctionsDir
        ev1 == d.events \o <<"existsSync:fn">>
        ev2 == ev1 \o <<"rmSync:fn">>
        removed == rmSync(fns, name)
    IN  IF d.threw THEN FnOut(fns, Failure(d.error), d.events)
        ELSE IF ~fns[name].dir THEN FnOut(fns, Failure(ErrFunctionNotFound), ev1)
        ELSE IF fault = "rmSync" THEN FnOut(fns, Failure(ErrIO), ev2 \o <<Threw>>)
        ELSE FnOut(removed, Success("deleted"), ev2)

-----------------------------------------------------------------------------
(* The store as a state machine: one action per tool handler, its inputs    *)
(* drawn from the sets it is given                                          *)

SecretFaults == {"none", "readFileSync", "writeFileSync", "execSync"}
DeployFaults == {"none", "mkdirSync", "writeFileSync:index.ts",
                 "writeFileSync:import_map.json"}

\* the mappings a secret file present at start was written from
InitMappings == {<<>>, << <<<<"A">>, <<"a", "b", "c">>>> >>}

InitStore(roots) ==
    /\ rootState \in roots
    /\ envFile \in {NoTextFile} \cup
                   (IF rootState = "ok"
                    THEN {[exists |-> TRUE, content |-> serializeEnvFile(m)] :
                             m \in InitMappings}
                    ELSE {})
    /\ fns = [n \in Names |-> NoFunction]
    /\ call = NoCall
    /\ result = Success("")
    /\ events = <<>>
    /\ escaped = FALSE
    /\ pending = NoPending
    /\ expectedEnv = parseEnvFile(envFile.content)
    /\ deleted = {}
    /\ reqs = <<>>
    /\ writeLog = <<>>
    /\ outside = NoOutside
    /\ deployed = {}

\* A request without an arguments object: the handler's first statement
\* destructures undefined, outside its try block, and the TypeError goes to the
\* dispatcher, whose catch answers with the failure envelope
ArgsAbsent(tool) ==
    /\ call' = [NoCall EXCEPT !.tool = tool, !.hasArgs = FALSE]
    /\ result' = Failure(ErrDestructure)
    /\ escaped' = TRUE
    /\ events' = <<>>
    /\ UNCHANGED <<rootState, envFile, fns, expectedEnv, deleted, pending,
                   codecVars, reqVars, pathVars>>

handleSetSecret(keys, values) ==
    \/ ArgsAbsent("set_secret")
    \/ \E key \in keys, value \in values, fault \in SecretFaults :
           \E o \in {SetSecret(key, value, fault)} :
               /\ Len(o.file.content) <= MaxFileLen
               /\ envFile' = o.file
               /\ result' = o.result
               /\ escaped' = FALSE
               /\ events' = o.events
               /\ call' = [NoCall EXCEPT !.tool = "set_secret", !.key = key, !.value = value]
               /\ expectedEnv' = IF o.result.success
                                 THEN MapSet(expectedEnv, key, value) ELSE expectedEnv
               /\ UNCHANGED <<rootState, fns, deleted, pending, codecVars, reqVars, pathVars>>

handleDeleteSecret(keys) ==
    \/ ArgsAbsent("delete_secret")
    \/ \E key \in keys, fault \in SecretFaults :
           \E o \in {DeleteSecret(key, fault)} :
               /\ Len(o.file.content) <= MaxFileLen
               /\ envFile' = o.file
               /\ result' = o.result
               /\ escaped' = FALSE
               /\ events' = o.events
               /\ call' = [NoCall EXCEPT !.tool = "delete_secret", !.key = key]
               /\ expectedEnv' = IF o.result.success
                                 THEN MapDelete(expectedEnv, key) ELSE expectedEnv
               /\ UNCHANGED <<rootState, fns, deleted, pending, codecVars, reqVars, pathVars>>

handleListSecrets ==
    \E fault \in {"none", "readFileSync"} :
        \E o \in {ListSecrets(fault)} :
            /\ envFile' = o.file
            /\ result' = o.result
            /\ escaped' = FALSE
            /\ events' = o.events
            /\ call' = [NoCall EXCEPT !.tool = "list_secrets"]
            /\ UNCHANGED <<rootState, fns, expectedEnv, deleted, pending, codecVars, reqVars, pathVars>>

handleCreateEdgeFunction(names, sources, importMaps) ==
    \/ ArgsAbsent("create_edge_function")
    \/ \E name \in names, source \in sources, importMap \in importMaps,
          fault \in DeployFaults :
           \E o \in {CreateEdgeFunction(name, source, importMap, fault)} :
               /\ fns' = o.fns
               /\ result' = o.result
               /\ escaped' = FALSE
               /\ events' = o.events
               /\ call' = [NoCall EXCEPT !.tool = "create_edge_function", !.name = name,
                                         !.source = source, !.importMap = importMap]
               /\ deleted' = IF o.fns[name].dir THEN deleted \ {name} ELSE deleted
               /\ UNCHANGED <<rootState, envFile, expectedEnv, pending, codecVars, reqVars, pathVars>>

handleListEdgeFunctions ==
    \E fault \in {"none", "readdirSync"} :
        \E o \in {ListEdgeFunctions(fault)} :
            /\ fns' = o.fns
            /\ result' = o.result
            /\ escaped' = FALSE
            /\ events' = o.events
            /\ call' = [NoCall EXCEPT !.tool = "list_edge_functions"]
            /\ UNCHANGED <<rootState, envFile, expectedEnv, deleted, pending, codecVars, reqVars, pathVars>>

handleDeleteEdgeFunction(names) ==
    \/ ArgsAbsent("delete_edge_function")
    \/ \E name \in names, fault \in {"none", "rmSync"} :
           \E o \in {DeleteEdgeFunction(name, fault)} :
               /\ fns' = o.fns
               /\ result' = o.result
               /\ escaped' = FALSE
               /\ events' = o.events
               /\ call' = [NoCall EXCEPT !.tool = "delete_edge_function", !.name = name]
               /\ deleted' = IF o.result.success THEN deleted \cup {name} ELSE deleted
               /\ UNCHANGED <<rootState, envFile, expectedEnv, pending, codecVars, reqVars, pathVars>>

\* what somebody else leaves at the path of the secret file
ExternalContents ==
    {NoTextFile,
     [exists |-> TRUE,
      content |-> serializeEnvFile(<<<<<<"_", "1">>, <<"a", "b", "c", "d">>>>>>)],
     [exists |-> TRUE,
      content |-> serializeEnvFile(<<<<<<"A">>, <<"a", SP, "b">>>>,
                                     <<<<"_", "1">>, <<"a", "b", "c">>>>>>)]}

\* the secret file is written, replaced or removed from outside the server,
\* between two requests
ExternalWrite ==
    /\ rootState = "ok"
    /\ envFile' \in ExternalContents \ {envFile}
    /\ UNCHANGED <<rootState, fns, call, result, events, escaped, pending,
                   expectedEnv, deleted, codecVars, reqVars, pathVars>>

-----------------------------------------------------------------------------
(* Function invoker: handleInvokeEdgeFunction, in two steps around its await *)

\* which call of the connection lookup throws, if any
ConnectionOutcomes == {"ok", "getConnection", "getSupabaseClient"}

\* what the backend client's invoke settles to: { data }, { error }, or a rejection
BackendOutcomes == {"data", "error", "rejects"}

\* Up to the await. getConnection() is called before the try block, so its
\* exception leaves the handler; getSupabaseClient() is called inside it.
InvokeBegin(conn) ==
    IF conn = "getConnection"
    THEN [threw |-> TRUE, awaits |-> FALSE, result |-> Failure(ErrConnection),
          events |-> <<"getConnection", Threw>>]
    ELSE IF conn = "getSupabaseClient"
    THEN [threw |-> FALSE, awaits |-> FALSE, result |-> Failure(ErrConnection),
          events |-> <<"getConnection", "getSupabaseClient", Threw>>]
    ELSE [threw |-> FALSE, awaits |-> TRUE, result |-> Success(""),
          events |-> <<"getConnection", "getSupabaseClient", "functions.invoke">>]

\* From the await to the return
InvokeResume(outcome) ==
    IF outcome = "data"
    THEN [result |-> Success("invoked"),
          events |-> <<"getConnection", "getSupabaseClient", "functions.invoke">>]
    ELSE IF outcome = "error"
    THEN [result |-> Failure(ErrBackend),
          events |-> <<"getConnection", "getSupabaseClient", "functions.invoke">>]
    ELSE [result |-> Failure(ErrBackend),
          events |-> <<"getConnection", "getSupabaseClient", "functions.invoke", Threw>>]

\* the handler is entered and runs until it returns, throws or awaits the backend
handleInvokeEdgeFunction(names) ==
    /\ ~pending.active
    /\ \/ ArgsAbsent("invoke_edge_function")
       \/ \E name \in names, conn \in ConnectionOutcomes :
              \E o \in {InvokeBegin(conn)} :
                  IF o.awaits
                  THEN /\ pending' = [active |-> TRUE, name |-> name]
                       /\ UNCHANGED <<rootState, envFile, fns, call, result, events,
                                      escaped, expectedEnv, deleted, codecVars, reqVars, pathVars>>
                  ELSE /\ call' = [NoCall EXCEPT !.tool = "invoke_edge_function",
                                                 !.name = name]
                       /\ result' = o.result
                       /\ escaped' = o.threw
                       /\ events' = o.events
                       /\ UNCHANGED <<rootState, envFile, fns, expectedEnv, deleted,
                                      pending, codecVars, reqVars, pathVars>>

\* the backend client settles and the handler runs on to its return
resumeInvokeEdgeFunction ==
    /\ pending.active
    /\ \E outcome \in BackendOutcomes :
           \E o \in {InvokeResume(outcome)} :
               /\ call' = [NoCall EXCEPT !.tool = "invoke_edge_function",
                                         !.name = pending.name]
               /\ result' = o.result
               /\ escaped' = FALSE
               /\ events' = o.events
               /\ pending' = NoPending
               /\ UNCHANGED <<rootState, envFile, fns, expectedEnv, deleted,
                              codecVars, reqVars, pathVars>>

-----------------------------------------------------------------------------
(* Requests in flight: the handlers step by step, one step per filesystem,  *)
(* process or backend call group, for two requests served by one server     *)
(* process or by two server processes on the same functions directory.      *)
(* No call fails here; the failures are in the handler functions above.     *)

Requests == {1, 2}

ReqKeys == ValidKeys
ReqValues == {<<"a", "b", "c">>}
ReqNames == {"f"}
ReqSources == {"s1"}

\* the calls a request can carry
RequestCalls ==
    {[NoCall EXCEPT !.tool = "set_secret", !.key = k, !.value = v] :
        k \in ReqKeys, v \in ReqValues}
    \cup {[NoCall EXCEPT !.tool = "delete_secret", !.key = k] : k \in ReqKeys}
    \cup {[NoCall EXCEPT !.tool = "list_secrets"]}
    \cup {[NoCall EXCEPT !.tool = "create_edge_function", !.name = n, !.source = s] :
             n \in ReqNames, s \in ReqSources}
    \cup {[NoCall EXCEPT !.tool = "list_edge_functions"]}
    \cup {[NoCall EXCEPT !.tool = "delete_edge_function", !.name = n] : n \in ReqNames}
    \cup {[NoCall EXCEPT !.tool = "invoke_edge_function", !.name = n] : n \in ReqNames}

\* a request not yet started: env is the mapping its handler parsed, dirs the
\* directory entries it read, readAt the number of writes of .env before it read
NewRequest(proc, c) ==
    [proc |-> proc, call |-> c, pc |-> "start", env |-> <<>>, dirs |-> {},
     readAt |-> 0, result |-> Success("")]

\* the handler is suspended at an await: only handleInvokeEdgeFunction has one
yieldsAt_AwaitsRead(tool, pc) ==
    (tool = "invoke_edge_function" /\ pc = "awaiting") \/ pc = "read"

yieldsAt(tool, pc) == tool = "invoke_edge_function" /\ pc = "awaiting"

\* the request is inside a synchronous stretch of its handler
Holding(q) ==
    /\ reqs[q].pc \notin {"start", "done"}
    /\ ~yieldsAt(reqs[q].call.tool, reqs[q].pc)

\* JavaScript runs one job at a time in a process: a request takes a step only
\* while no other request of its process is inside a synchronous stretch
Runnable(r) ==
    \A q \in Requests \ {r} : reqs[q].proc = reqs[r].proc => ~Holding(q)

At(r, tool, pc) ==
    /\ reqs[r].call.tool = tool
    /\ reqs[r].pc = pc
    /\ Runnable(r)

Finish(r, res) == [reqs EXCEPT ![r].pc = "done", ![r].result = res]

\* what the secret handlers leave unchanged besides the file
reqFrame == <<rootState, call, result, events, escaped, pending, expectedEnv,
              deleted, codecVars, pathVars>>

\* handleSetSecret up to the parse of the file
SetSecretRead(r) ==
    /\ At(r, "set_secret", "start")
    /\ reqs' = IF ~ValidKey(reqs[r].call.key)
               THEN Finish(r, Failure(ErrInvalidKey))
               ELSE [reqs EXCEPT ![r].pc = "read",
                                 ![r].env = IF envFile.exists
                                            THEN parseEnvFile(envFile.content)
                                            ELSE <<>>,
                                 ![r].readAt = Len(writeLog)]
    /\ UNCHANGED <<envFile, fns, writeLog, reqFrame>>

\* handleDeleteSecret up to the test of the key
DeleteSecretRead(r) ==
    /\ At(r, "delete_secret", "start")
    /\ reqs' = IF ~envFile.exists
               THEN Finish(r, Failure(ErrNoSecretsFile))
               ELSE IF ~MapHas(parseEnvFile(envFile.content), reqs[r].call.key)
               THEN Finish(r, Failure(ErrSecretNotFound))
               ELSE [reqs EXCEPT ![r].pc = "read",
                                 ![r].env = parseEnvFile(envFile.content),
                                 ![r].readAt = Len(writeLog)]
    /\ UNCHANGED <<envFile, fns, writeLog, reqFrame>>

\* the text written from the file re-read at the time of the write
SecretWriteContent_Rereads(req) ==
    serializeEnvFile(
        IF req.call.tool = "set_secret"
        THEN MapSet(parseEnvFile(envFile.content), req.call.key, req.call.value)
        ELSE MapDelete(parseEnvFile(envFile.content), req.call.key))

\* env.set or env.delete on the mapping the handler parsed, then serializeEnvFile
SecretWriteContent(req) ==
    serializeEnvFile(
        IF req.call.tool = "set_secret"
        THEN MapSet(req.env, req.call.key, req.call.value)
        ELSE MapDelete(req.env, req.call.key))

\* fs.writeFileSync(envPath, ...) of handleSetSecret and handleDeleteSecret
SecretWrite(r) ==
    /\ reqs[r].call.tool \in {"set_secret", "delete_secret"}
    /\ reqs[r].pc = "read"
    /\ Runnable(r)
    /\ envFile' = [exists |-> TRUE, content |-> SecretWriteContent(reqs[r])]
    /\ writeLog' = Append(writeLog, r)
    /\ reqs' = [reqs EXCEPT ![r].pc = "written"]
    /\ UNCHANGED <<fns, reqFrame>>

\* restartEdgeRuntime() and the return of handleSetSecret and handleDeleteSecret
SecretReturn(r) ==
    /\ reqs[r].call.tool \in {"set_secret", "delete_secret"}
    /\ reqs[r].pc = "written"
    /\ Runnable(r)
    /\ reqs' = Finish(r, [Success(IF reqs[r].call.tool = "delete_secret" THEN "deleted"
                                  ELSE IF MapHas(reqs[r].env, reqs[r].call.key)
                                  THEN "updated" ELSE "created")
                             EXCEPT !.restarted = TRUE])
    /\ UNCHANGED <<envFile, fns, writeLog, reqFrame>>

\* handleListSecrets up to the parse of the file
ListSecretsRead(r) ==
    /\ At(r, "list_secrets", "start")
    /\ reqs' = IF ~envFile.exists
               THEN Finish(r, Success("No secrets configured"))
               ELSE [reqs EXCEPT ![r].pc = "read",
                                 ![r].env = parseEnvFile(envFile.content),
                                 ![r].readAt = Len(writeLog)]
    /\ UNCHANGED <<envFile, fns, writeLog, reqFrame>>

\* the masking and the return of handleListSecrets
ListSecretsReturn(r) ==
    /\ At(r, "list_secrets", "read")
    /\ LET env == reqs[r].env
           masked == [i \in 1..Len(env) |-> maskValue(env[i][2])]
           secrets == [i \in 1..Len(env) |->
                          [key |-> env[i][1], value |-> masked[i].ret,
                           length |-> Len(env[i][2])]]
       IN  reqs' = IF \E i \in 1..Len(env) : masked[i].threw
                   THEN Finish(r, Failure(ErrRange))
                   ELSE Finish(r, [Success("") EXCEPT !.secrets = secrets])
    /\ UNCHANGED <<envFile, fns, writeLog, reqFrame>>

\* fs.mkdirSync(fnDir, { recursive: true }) of handleCreateEdgeFunction
CreateMkdir(r) ==
    /\ At(r, "create_edge_function", "start")
    /\ fns' = [fns EXCEPT ![reqs[r].call.name].dir = TRUE]
    /\ reqs' = [reqs EXCEPT ![r].pc = "made"]
    /\ UNCHANGED <<envFile, writeLog, reqFrame>>

\* the write of index.ts and the return of handleCreateEdgeFunction; a
\* directory removed in the meantime makes the write fail
CreateWrite(r) ==
    /\ At(r, "create_edge_function", "made")
    /\ IF fns[reqs[r].call.name].dir
       THEN /\ fns' = [fns EXCEPT ![reqs[r].call.name].index =
                          [exists |-> TRUE, content |-> reqs[r].call.source]]
            /\ reqs' = Finish(r, Success("deployed"))
       ELSE /\ fns' = fns
            /\ reqs' = Finish(r, Failure(ErrENOENT))
    /\ UNCHANGED <<envFile, writeLog, reqFrame>>

\* fs.readdirSync of handleListEdgeFunctions
ListReaddir(r) ==
    /\ At(r, "list_edge_functions", "start")
    /\ reqs' = [reqs EXCEPT ![r].pc = "listed",
                            ![r].dirs = {n \in Names : fns[n].dir}]
    /\ UNCHANGED <<envFile, fns, writeLog, reqFrame>>

\* the existsSync and statSync calls per entry, and the return
ListStat(r) ==
    /\ At(r, "list_edge_functions", "listed")
    /\ reqs' = IF \E n \in reqs[r].dirs : ~fns[n].index.exists
               THEN Finish(r, Failure(ErrENOENT))
               ELSE Finish(r, [Success("") EXCEPT !.functions =
                       {[name |-> n, hasIndex |-> fns[n].index.exists,
                         hasImportMap |-> fns[n].importMap.exists] :
                            n \in reqs[r].dirs}])
    /\ UNCHANGED <<envFile, fns, writeLog, reqFrame>>

\* fs.existsSync(fnDir) of handleDeleteEdgeFunction
DeleteExists(r) ==
    /\ At(r, "delete_edge_function", "start")
    /\ reqs' = IF fns[reqs[r].call.name].dir
               THEN [reqs EXCEPT ![r].pc = "checked"]
               ELSE Finish(r, Failure(ErrFunctionNotFound))
    /\ UNCHANGED <<envFile, fns, writeLog, reqFrame>>

\* fs.rmSync(fnDir, { recursive: true, force: true }) and the return
DeleteRm(r) ==
    /\ At(r, "delete_edge_function", "checked")
    /\ fns' = rmSync(fns, reqs[r].call.name)
    /\ reqs' = Finish(r, Success("deleted"))
    /\ UNCHANGED <<envFile, writeLog, reqFrame>>

\* handleInvokeEdgeFunction up to its await
InvokeCall(r) ==
    /\ At(r, "invoke_edge_function", "start")
    /\ reqs' = [reqs EXCEPT ![r].pc = "awaiting"]
    /\ UNCHANGED <<envFile, fns, writeLog, reqFrame>>

\* handleInvokeEdgeFunction from its await to its return
InvokeSettle(r) ==
    /\ At(r, "invoke_edge_function", "awaiting")
    /\ \E outcome \in BackendOutcomes :
           reqs' = Finish(r, InvokeResume(outcome).result)
    /\ UNCHANGED <<envFile, fns, writeLog, reqFrame>>

-----------------------------------------------------------------------------
(* Function names as paths: the handlers take any string for a name and     *)
(* pass it to path.join(functionsDir, name). No call fails here.            *)

\* names that path.join does not resolve to a subdirectory of their own
OddNames == {"", ".", "..", "f/.."}
AnyNames == Names \cup OddNames

\* path.join(functionsDir, name): the directory of a function, the functions
\* directory itself, or its parent
resolve(name) ==
    IF name \in {"", ".", "f/.."} THEN "root"
    ELSE IF name = ".." THEN "parent"
    ELSE name

PathOut(root, file, store, out, res, evs) ==
    [root |-> root, file |-> file, fns |-> store, outside |-> out,
     result |-> res, events |-> evs]

\* handleCreateEdgeFunction on any name
CreateEdgeFunctionAt(name, source, importMap) ==
    LET d == getFunctionsDir
        at == resolve(name)
        files == {"index.ts"} \cup
                 (IF writesImportMap(importMap) THEN {"import_map.json"} ELSE {})
        evs == d.events \o <<"mkdirSync:fn", "writeFileSync:index.ts">>
               \o (IF writesImportMap(importMap)
                   THEN <<"writeFileSync:import_map.json">> ELSE <<>>)
    IN  IF at \in Names
        THEN LET o == CreateEdgeFunction(name, source, importMap, "none")
             IN  PathOut(rootState, envFile, o.fns, outside, o.result, o.events)
        ELSE IF d.threw
        THEN PathOut(rootState, envFile, fns, outside, Failure(d.error), d.events)
        ELSE IF at = "root"
        THEN PathOut(rootState, envFile, fns,
                     [outside EXCEPT !.rootFiles = @ \cup files],
                     Success("deployed"), evs)
        ELSE PathOut(rootState, envFile, fns,
                     [outside EXCEPT !.parentFiles = @ \cup files],
                     Success("deployed"), evs)

\* fs.rmSync(dir, { recursive: true, force: true }) on the functions directory
\* or on its parent: the directory goes with all that is below it
rmSyncAt(at) ==
    PathOut("missing", NoTextFile, [n \in Names |-> NoFunction],
            IF at = "root" THEN [outside EXCEPT !.rootFiles = {}]
            ELSE [rootFiles |-> {}, parentFiles |-> {}, parent |-> FALSE],
            Success("deleted"),
            <<"existsSync:dir", "existsSync:fn", "rmSync:fn">>)

\* handleDeleteEdgeFunction on any name
DeleteEdgeFunctionAt(name) ==
    LET d == getFunctionsDir
        at == resolve(name)
    IN  IF at \in Names
        THEN LET o == DeleteEdgeFunction(name, "none")
             IN  PathOut(rootState, envFile, o.fns, outside, o.result, o.events)
        ELSE IF d.threw
        THEN PathOut(rootState, envFile, fns, outside, Failure(d.error), d.events)
        ELSE rmSyncAt(at)

handleCreateEdgeFunctionAt(names, sources, importMaps) ==
    \E name \in names, source \in sources, importMap \in importMaps :
        \E o \in {CreateEdgeFunctionAt(name, source, importMap)} :
            /\ fns' = o.fns
            /\ outside' = o.outside
            /\ result' = o.result
            /\ escaped' = FALSE
            /\ events' = o.events
            /\ call' = [NoCall EXCEPT !.tool = "create_edge_function", !.name = name,
                                      !.source = source, !.importMap = importMap]
            /\ deleted' = IF name \in Names /\ o.fns[name].dir
                          THEN deleted \ {name} ELSE deleted
            /\ deployed' = IF o.result.success THEN deployed \cup {name} ELSE deployed
            /\ UNCHANGED <<rootState, envFile, expectedEnv, pending, codecVars, reqVars>>

handleDeleteEdgeFunctionAt(names) ==
    \E name \in names :
        \E o \in {DeleteEdgeFunctionAt(name)} :
            /\ rootState' = o.root
            /\ envFile' = o.file
            /\ fns' = o.fns
            /\ outside' = o.outside
            /\ result' = o.result
            /\ escaped' = FALSE
            /\ events' = o.events
            /\ call' = [NoCall EXCEPT !.tool = "delete_edge_function", !.name = name]
            /\ deleted' = IF name \in Names /\ o.result.success
                          THEN deleted \cup {name} ELSE deleted
            /\ deployed' = IF o.result.success THEN deployed \ {name} ELSE deployed
            /\ UNCHANGED <<expectedEnv, pending, codecVars, reqVars>>

-----------------------------------------------------------------------------
(* Specifications *)

\* The whole tool surface, on few inputs, from every state of the store root
FewKeys == {<<"A">>, <<"A", "-">>}
FewValues == {<<"a", "b", "c">>}
FewNames == {"f"}
FewSources == {"s1"}
FewImportMaps == {NoImportMap, [defined |-> TRUE, imports |-> {<<"std", "u1">>}]}

Init == InitStore({"unset", "missing", "ok"}) /\ InitCodecVars

Next ==
    \/ handleSetSecret(FewKeys, FewValues)
    \/ handleDeleteSecret(FewKeys)
    \/ handleListSecrets
    \/ handleCreateEdgeFunction(FewNames, FewSources, FewImportMaps)
    \/ handleListEdgeFunctions
    \/ handleDeleteEdgeFunction(FewNames)
    \/ handleInvokeEdgeFunction(FewNames)
    \/ resumeInvokeEdgeFunction

Spec == Init /\ [][Next]_vars

\* The secret store alone, on all keys and values
InitSecrets == InitStore({"ok"}) /\ InitCodecVars

NextSecrets ==
    \/ handleSetSecret(Keys, Values)
    \/ handleDeleteSecret(Keys)
    \/ handleListSecrets

SpecSecrets == InitSecrets /\ [][NextSecrets]_vars

\* The function store alone, on all names, sources and import maps
InitFunctions == InitStore({"ok"}) /\ InitCodecVars

NextFunctions ==
    \/ handleCreateEdgeFunction(Names, Sources, ImportMaps)
    \/ handleListEdgeFunctions
    \/ handleDeleteEdgeFunction(Names)

SpecFunctions == InitFunctions /\ [][NextFunctions]_vars

\* The codec alone: one mapping, serialized and parsed back
InitCodec ==
    /\ rootState = "ok"
    /\ envFile = NoTextFile
    /\ fns = [n \in Names |-> NoFunction]
    /\ call = NoCall
    /\ result = Success("")
    /\ events = <<>>
    /\ escaped = FALSE
    /\ pending = NoPending
    /\ expectedEnv = <<>>
    /\ deleted = {}
    /\ reqs = <<>>
    /\ writeLog = <<>>
    /\ outside = NoOutside
    /\ deployed = {}
    /\ codecIn \in Mappings(MaxEntries)
    /\ codecText = <<>>
    /\ codecOut = <<>>
    /\ codecPc = "start"

NextCodec ==
    \/ Serialize /\ UNCHANGED <<storeVars, reqVars, pathVars>>
    \/ Parse /\ UNCHANGED <<storeVars, reqVars, pathVars>>

SpecCodec == InitCodec /\ [][NextCodec]_vars

\* The secret store with a writer of the secret file outside the server
InitExternal == InitStore({"ok"}) /\ InitCodecVars

NextExternal ==
    \/ handleSetSecret(ValidKeys, FewValues)
    \/ handleDeleteSecret(ValidKeys)
    \/ handleListSecrets
    \/ ExternalWrite

SpecExternal == InitExternal /\ [][NextExternal]_vars

\* The function store on any name, slug or not
InitPaths == InitStore({"ok"}) /\ InitCodecVars

NextPaths ==
    \/ handleCreateEdgeFunctionAt(AnyNames, FewSources, FewImportMaps)
    \/ handleDeleteEdgeFunctionAt(AnyNames)
    \/ handleListEdgeFunctions

SpecPaths == InitPaths /\ [][NextPaths]_vars

\* Two requests, step by step, in one server process or in two
InitRequests ==
    /\ rootState = "ok"
    /\ envFile \in {NoTextFile,
                    [exists |-> TRUE,
                     content |-> serializeEnvFile(<<<<<<"A">>, <<"x">>>>>>)]}
    /\ fns = [n \in Names |-> NoFunction]
    /\ call = NoCall
    /\ result = Success("")
    /\ events = <<>>
    /\ escaped = FALSE
    /\ pending = NoPending
    /\ expectedEnv = parseEnvFile(envFile.content)
    /\ deleted = {}
    /\ InitCodecVars
    /\ \E c1, c2 \in RequestCalls, p \in {1, 2} :
           reqs = [r \in Requests |->
                      IF r = 1 THEN NewRequest(1, c1) ELSE NewRequest(p, c2)]
    /\ writeLog = <<>>
    /\ outside = NoOutside
    /\ deployed = {}

NextRequests ==
    \E r \in Requests :
        \/ SetSecretRead(r)
        \/ DeleteSecretRead(r)
        \/ SecretWrite(r)
        \/ SecretReturn(r)
        \/ ListSecretsRead(r)
        \/ ListSecretsReturn(r)
        \/ CreateMkdir(r)
        \/ CreateWrite(r)
        \/ ListReaddir(r)
        \/ ListStat(r)
        \/ DeleteExists(r)
        \/ DeleteRm(r)
        \/ InvokeCall(r)
        \/ InvokeSettle(r)

SpecRequests == InitRequests /\ [][NextRequests]_vars

-----------------------------------------------------------------------------
(* Vocabulary of the properties *)

\* the call named c was made and returned normally
Completed(evs, c) ==
    \E i \in 1..Len(evs) : evs[i] = c /\ (i = Len(evs) \/ evs[i + 1] # Threw)

\* the call named c was made and threw
Failed(evs, c) ==
    \E i \in 1..(Len(evs) - 1) : evs[i] = c /\ evs[i + 1] = Threw

Count(evs, c) == Cardinality({i \in 1..Len(evs) : evs[i] = c})

\* two mappings with the same keys and the same value for each
SameMapping(a, b) ==
    /\ MapKeys(a) = MapKeys(b)
    /\ \A k \in MapKeys(a) : MapGet(a, k) = MapGet(b, k)

IsSecretMutation(c) == c.tool \in {"set_secret", "delete_secret"}

ConfigErrors == {ErrNotSet, ErrNoDir}

\* the operations of the secret store and of the function store
StoreTools ==
    {"set_secret", "delete_secret", "list_secrets",
     "create_edge_function", "list_edge_functions", "delete_edge_function"}

-----------------------------------------------------------------------------
(* Properties *)

\* C1: a mapping with valid keys and arbitrary string values that is serialized
\* and parsed back comes out the same, keys, key order and values.
C1_RoundTrip == codecPc = "parsed" => codecOut = codecIn

\* C2: after any sequence of successful Set and Delete calls the secret file
\* parses to the mapping those upserts and removals describe.
C2_FileMatchesHistory ==
    SameMapping(parseEnvFile(envFile.content), expectedEnv)

\* C3: when the restart fails in a Set or Delete whose file write succeeded, the
\* operation returns success:true with restarted:false, and the file holds the
\* mapping read before the call with the key upserted (Set) or removed (Delete).
C3_RestartFailureIsolated ==
    [][(IsSecretMutation(call') /\ Completed(events', "writeFileSync:.env")
            /\ Failed(events', "execSync:restart"))
        => /\ result'.success
           /\ ~result'.restarted
           /\ envFile'.exists
           /\ call'.tool = "set_secret" =>
                envFile'.content = serializeEnvFile(
                    MapSet(parseEnvFile(envFile.content), call'.key, call'.value))
           /\ call'.tool = "delete_secret" =>
                envFile'.content = serializeEnvFile(
                    MapDelete(parseEnvFile(envFile.content), call'.key))]_vars

\* C3 witness: a Delete wrote the file, its restart failed, and it returned
W3_RestartFailedAfterWrite ==
    /\ call.tool = "delete_secret"
    /\ Completed(events, "writeFileSync:.env")
    /\ Failed(events, "execSync:restart")

\* C4: a Set or Delete that rewrites the secret file attempts exactly one
\* restart, after the write and as the last call before it returns, and the
\* restarted flag it returns is the outcome of that attempt.
C4_RestartFollowsWrite ==
    (IsSecretMutation(call) /\ Completed(events, "writeFileSync:.env"))
        => /\ Count(events, "execSync:restart") = 1
           /\ Count(events, "writeFileSync:.env") = 1
           /\ indexOf(events, "writeFileSync:.env") < indexOf(events, "execSync:restart")
           /\ indexOf(events, "execSync:restart") >= Len(events) - 1
           /\ result.success
           /\ result.restarted = Completed(events, "execSync:restart")

\* C4 witness: a Set that updated a key and restarted the runtime
W4_SetRestarted ==
    /\ call.tool = "set_secret"
    /\ result.message = "updated"
    /\ result.restarted

\* C5: a Set with a key that does not match the pattern fails with the
\* invalid-key error, makes no filesystem or process call and leaves the secret
\* file as it was, in every state of the store.
C5_InvalidKeyRejected ==
    [][(call'.tool = "set_secret" /\ call'.key \in InvalidKeys)
        => /\ ~result'.success
           /\ result'.error = ErrInvalidKey
           /\ events' = <<>>
           /\ envFile' = envFile
           /\ fns' = fns]_vars

\* C5 witness: a Set with an invalid key was made on an existing secret file
W5_InvalidKeyOnFile ==
    /\ call.tool = "set_secret"
    /\ call.key \in InvalidKeys
    /\ envFile.exists

\* C6: every value a successful List returns shows at most the first three
\* characters of the secret and differs from the secret.
C6_ListNeverRaw ==
    (call.tool = "list_secrets" /\ result.success)
        => \A i \in 1..Len(result.secrets) :
              LET raw == MapGet(parseEnvFile(envFile.content), result.secrets[i].key)
                  shown == result.secrets[i].value
              IN  /\ \A j \in 4..Len(shown) : shown[j] = MASK
                  /\ shown # raw

\* C7: a List on an existing secret file, no filesystem call failing, succeeds
\* with one entry per key: the key, the first min(3, len) characters followed by
\* min(max(len - 3, 0), 20) mask characters, and the length.
C7_ListTotal ==
    (call.tool = "list_secrets" /\ envFile.exists /\ rootState = "ok"
            /\ ~Failed(events, "readFileSync:.env"))
        => LET env == parseEnvFile(envFile.content)
           IN  /\ result.success
               /\ Len(result.secrets) = Len(env)
               /\ \A i \in 1..Len(env) :
                     LET len == Len(env[i][2])
                         masks == Min(IF len - 3 > 0 THEN len - 3 ELSE 0, 20)
                     IN  /\ result.secrets[i].key = env[i][1]
                         /\ result.secrets[i].length = len
                         /\ result.secrets[i].value =
                              SubSeq(env[i][2], 1, Min(3, len)) \o [j \in 1..masks |-> MASK]

C9_IdempotentDeploy ==
    [][(call'.tool = "create_edge_function" /\ call'.hasArgs) =>
        LET n == call'.name
        IN  /\ (fns[n].dir /\ Threw \notin Range(events')) => result'.success
            /\ result'.success =>
                  fns'[n].index = [exists |-> TRUE, content |-> call'.source]
            /\ (result'.success /\ call'.importMap.imports = {})
                  => /\ fns'[n].importMap = fns[n].importMap
                     /\ Count(events', "writeFileSync:import_map.json") = 0]_vars

\* C9 witness: a Deploy without an import map succeeded on a function whose
\* import-map file an earlier Deploy wrote
W9_ImportMapKept ==
    /\ call.tool = "create_edge_function"
    /\ result.success
    /\ ~call.importMap.defined
    /\ fns[call.name].importMap.exists
    /\ fns[call.name].index.content = "s2"

\* C10 as stated: with the store root not configured or not on disk, every
\* store operation fails with a configuration-missing error, whatever its
\* arguments.
C10_MissingRootAlwaysConfigError ==
    (rootState # "ok" /\ call.tool \in StoreTools)
        => ~result.success /\ result.error \in ConfigErrors

\* C10 amended: with the store root not configured or not on disk, every
\* store operation fails, having made no call but the existence test of the
\* root, and no file exists afterwards; the error is the configuration-missing
\* one, except for a call without an arguments object, which fails with the
\* TypeError of the destructuring, and for a Set with an invalid key, which
\* fails with the invalid-key error.
C10_MissingRootFails ==
    rootState # "ok"
        => /\ envFile = NoTextFile
           /\ fns = [n \in Names |-> NoFunction]
           /\ call.tool \in StoreTools =>
                /\ ~result.success
                /\ Range(events) \subseteq {"existsSync:dir"}
                /\ IF ~call.hasArgs
                   THEN result.error = ErrDestructure
                   ELSE IF call.tool = "set_secret" /\ call.key \in InvalidKeys
                   THEN result.error = ErrInvalidKey
                   ELSE result.error \in ConfigErrors

\* C10 witness: a Deploy was attempted with the root directory not on disk
W10_DeployWithoutRoot ==
    /\ rootState = "missing"
    /\ call.tool = "create_edge_function"
    /\ call.importMap.defined


\* C11: every handler returns an envelope of its own, {success:true, ...} or
\* {success:false, error}, for every input and every failure of a lower layer;
\* no handler lets an exception escape to the dispatcher.
C11_NothingEscapes ==
    call.tool # "none"
        => /\ ~escaped
           /\ result.success => result.error = ""
           /\ ~result.success => result.error # ""


\* C12: a Delete returns a not-found failure when the secret file does not exist
\* or the key is not in the mapping parsed from it, leaving the file as it was,
\* or absent, and attempting no restart; when the key is there and no filesystem
\* call fails, the file is rewritten without the key and with every other key.
C12_DeleteMissingTarget ==
    [][(call'.tool = "delete_secret" /\ call'.hasArgs /\ rootState = "ok") =>
        LET key == call'.key
            before == MapKeys(parseEnvFile(envFile.content))
            after == MapKeys(parseEnvFile(envFile'.content))
        IN  /\ ~envFile.exists
                  => /\ ~result'.success
                     /\ result'.error = ErrNoSecretsFile
                     /\ envFile' = envFile
                     /\ Count(events', "execSync:restart") = 0
            /\ (envFile.exists /\ key \notin before
                    /\ ~Failed(events', "readFileSync:.env"))
                  => /\ ~result'.success
                     /\ result'.error = ErrSecretNotFound
                     /\ envFile' = envFile
                     /\ Count(events', "execSync:restart") = 0
            /\ (envFile.exists /\ key \in before
                    /\ ~Failed(events', "readFileSync:.env")
                    /\ ~Failed(events', "writeFileSync:.env"))
                  => /\ Completed(events', "writeFileSync:.env")
                     /\ envFile'.exists
                     /\ after = before \ {key}]_vars

\* C12 witness: a Delete of a key that is not in an existing secret file, which
\* holds another key, was answered with the not-found error
W12_KeyNotFound ==
    /\ call.tool = "delete_secret"
    /\ result.error = ErrSecretNotFound
    /\ envFile.exists
    /\ call.key \in ValidKeys
    /\ MapKeys(parseEnvFile(envFile.content)) # {}


\* C13: a successful Set reports "updated" exactly when the key was in the store
\* immediately before the call and "created" otherwise: "updated" after an
\* earlier Set of the key with no Delete of it since, "created" on an absent
\* file, on a file that never held the key, and after a Delete of the key.
C13_CreatedOrUpdated ==
    [][(call'.tool = "set_secret" /\ call'.hasArgs /\ result'.success) =>
        /\ result'.message \in {"created", "updated"}
        /\ result'.message = "updated"
              <=> (envFile.exists
                     /\ MapHas(parseEnvFile(envFile.content), call'.key))
        /\ result'.message = "updated" <=> MapHas(expectedEnv, call'.key)]_vars


\* the characters that make serializeEnvFile quote a value
QuotedCharacters == Whitespace \cup {HASH, DQ, SQ, BS, DOLLAR}

\* a value with a backslash put before each of its backslashes and double quotes
RECURSIVE Escaped(_)
Escaped(value) ==
    IF value = <<>> THEN <<>>
    ELSE (IF Head(value) \in {BS, DQ} THEN <<BS, Head(value)>> ELSE <<Head(value)>>)
         \o Escaped(Tail(value))

\* one line per entry, each ended by a line break; a lone line break for no entry
RECURSIVE LinesOf(_)
LinesOf(env) ==
    IF env = <<>> THEN <<>>
    ELSE Head(env)[1] \o <<EQ>>
         \o (IF Range(Head(env)[2]) \cap QuotedCharacters # {}
             THEN <<DQ>> \o Escaped(Head(env)[2]) \o <<DQ>>
             ELSE Head(env)[2])
         \o <<NL>> \o LinesOf(Tail(env))

\* C14: serializeEnvFile writes key="escaped-value", every backslash doubled
\* and every double quote preceded by a backslash, exactly for the values that
\* hold a whitespace character, '#', '"', "'", '\' or '$', and key=value for the
\* others; the entries are joined by line breaks and one line break ends the text.
C14_QuotedWhenNeeded ==
    codecPc # "start"
        => codecText = (IF codecIn = <<>> THEN <<NL>> ELSE LinesOf(codecIn))

\* C14 witness: a mapping of a value that holds a double quote and a value that
\* needs no quoting was serialized
W14_QuotedAndPlain ==
    /\ codecPc = "serialized"
    /\ Len(codecIn) = 2
    /\ DQ \in Range(codecIn[1][2])
    /\ Range(codecIn[2][2]) \cap QuotedCharacters = {}
    /\ codecIn[2][2] # <<>>


\* C15: a List whose directory read succeeds returns every immediate
\* subdirectory of the functions directory; one that lacks its source file is
\* returned with hasIndex false, and the others are returned all the same.
C15_ListToleratesMissingSource ==
    (call.tool = "list_edge_functions" /\ rootState = "ok"
        /\ ~Failed(events, "readdirSync:dir"))
        => /\ result.success
           /\ {e.name : e \in result.functions} = {n \in Names : fns[n].dir}
           /\ \A e \in result.functions : e.hasIndex = fns[e.name].index.exists


\* C16: a Deploy in which the directory creation, the source write or the
\* import-map write fails returns success:false and rolls nothing back: what it
\* created or wrote before the failure, and what was there before the call,
\* stays; a Deploy that succeeds leaves the source file in place, and a List
\* then reports every such function with hasIndex true.
C16_DeployFailureAndRecovery ==
    [][/\ (call'.tool = "create_edge_function" /\ call'.hasArgs /\ rootState = "ok") =>
            LET n == call'.name
            IN  /\ Threw \in Range(events') =>
                      /\ ~result'.success
                      /\ Completed(events', "mkdirSync:fn") => fns'[n].dir
                      /\ Completed(events', "writeFileSync:index.ts") =>
                            fns'[n].index = [exists |-> TRUE, content |-> call'.source]
                      /\ fns[n].dir => fns'[n].dir
                      /\ fns[n].index.exists => fns'[n].index.exists
                      /\ fns[n].importMap.exists => fns'[n].importMap = fns[n].importMap
                /\ result'.success =>
                      /\ fns'[n].dir
                      /\ fns'[n].index = [exists |-> TRUE, content |-> call'.source]
       /\ (call'.tool = "list_edge_functions" /\ rootState = "ok"
              /\ ~Failed(events', "readdirSync:dir")) =>
            \A n \in Names :
                (fns[n].dir /\ fns[n].index.exists) =>
                    /\ result'.success
                    /\ \E e \in result'.functions : e.name = n /\ e.hasIndex]_vars


\* C17 as stated: after a successful Deploy the artifact is exactly what the
\* call supplied: the given source, and an import-map file if and only if the
\* call supplied a non-empty import map, nothing being left of an earlier deploy.
C17_WholeArtifact ==
    (call.tool = "create_edge_function" /\ call.hasArgs /\ result.success)
        => /\ fns[call.name].index = [exists |-> TRUE, content |-> call.source]
           /\ fns[call.name].importMap =
                 (IF call.importMap.defined /\ call.importMap.imports # {}
                  THEN [exists |-> TRUE, content |-> call.importMap.imports]
                  ELSE NoJsonFile)

\* C17 amended: after a successful Deploy the source file holds the given
\* source; the import-map file holds the given import map when the call supplied
\* a non-empty one, and is otherwise as it was before the call, an earlier
\* deploy's import map included; no other function is touched.
C17_SourceReplacedImportMapKept ==
    [][(call'.tool = "create_edge_function" /\ call'.hasArgs /\ result'.success) =>
        LET n == call'.name
        IN  /\ fns'[n].dir
            /\ fns'[n].index = [exists |-> TRUE, content |-> call'.source]
            /\ fns'[n].importMap =
                  (IF call'.importMap.defined /\ call'.importMap.imports # {}
                   THEN [exists |-> TRUE, content |-> call'.importMap.imports]
                   ELSE fns[n].importMap)
            /\ \A m \in Names \ {n} : fns'[m] = fns[m]]_vars

\* C17 witness: a Deploy given an empty import map succeeded on a function that
\* still has the import-map file of an earlier Deploy
W17_ImportMapLeftOver ==
    /\ call.tool = "create_edge_function"
    /\ result.success
    /\ call.importMap.defined
    /\ call.importMap.imports = {}
    /\ fns[call.name].importMap = [exists |-> TRUE, content |-> {<<"std", "u2">>}]


\* C18: a restart of the runtime is attempted only inside a Set or Delete of a
\* secret, after that call has rewritten the secret file; a Deploy, a List or
\* Delete of functions, a List of secrets, an invocation, and a Set or Delete
\* that fails before writing attempt none.
C18_RestartOnlyAfterRewrite ==
    Count(events, "execSync:restart") > 0
        => /\ IsSecretMutation(call)
           /\ call.hasArgs
           /\ \E i, j \in 1..Len(events) :
                 /\ i < j
                 /\ events[i] = "writeFileSync:.env"
                 /\ events[i + 1] # Threw
                 /\ events[j] = "execSync:restart"

\* C18 witness: a Delete of a secret attempted the restart, in a store where a
\* function is deployed
W18_RestartInDelete ==
    /\ call.tool = "delete_secret"
    /\ Count(events, "execSync:restart") = 1
    /\ \E n \in Names : fns[n].index.exists


\* both calls changed the secret file and returned success:true, both having
\* read it before either wrote, a writing first and b last
BothReadThenWrote(a, b) ==
    /\ a # b
    /\ IsSecretMutation(reqs[a].call) /\ IsSecretMutation(reqs[b].call)
    /\ reqs[a].pc = "done" /\ reqs[b].pc = "done"
    /\ reqs[a].result.success /\ reqs[b].result.success
    /\ reqs[a].readAt = 0 /\ reqs[b].readAt = 0
    /\ writeLog = <<a, b>>

\* C19: when two Set or Delete calls both read the secret file before either
\* writes, the later write overwrites the earlier: for a key other than the
\* later caller's, the file ends as the content both read had it, the earlier
\* caller's upsert or removal gone, although both calls returned success:true.
C19_LostUpdate ==
    \A a, b \in Requests :
        (BothReadThenWrote(a, b) /\ reqs[a].call.key # reqs[b].call.key) =>
            LET k == reqs[a].call.key
                old == reqs[b].env
                final == parseEnvFile(envFile.content)
            IN  /\ MapHas(final, k) <=> MapHas(old, k)
                /\ MapHas(final, k) => MapGet(final, k) = MapGet(old, k)
                /\ reqs[a].call.tool = "delete_secret" => MapHas(final, k)

\* C19 witness: two Sets of different keys both returned success:true and the
\* key of the one that wrote first is not in the file
W19_EarlierSetLost ==
    \E a, b \in Requests :
        /\ BothReadThenWrote(a, b)
        /\ reqs[a].call.tool = "set_secret"
        /\ reqs[b].call.tool = "set_secret"
        /\ reqs[a].call.key # reqs[b].call.key
        /\ ~MapHas(parseEnvFile(envFile.content), reqs[a].call.key)

\* the request has taken its first step and not yet its last
InProgress(r) == reqs[r].pc \notin {"start", "done"}

\* C20 as stated: in one server process each invocation, of any of the seven
\* handlers, runs to completion before the next is serviced: no other request
\* takes a step between its first step and its last.
C20_RunToCompletion ==
    [][\A r, q \in Requests :
          (r # q /\ reqs[r].proc = reqs[q].proc /\ InProgress(r))
              => reqs'[q] = reqs[q]]_vars

\* C20 amended: in one server process each invocation of a store handler runs
\* to completion before the next is serviced: no other request takes a step
\* between its first step and its last. An invocation of the function invoker
\* does not: other requests are serviced while it awaits the backend.
C20_StoreHandlersRunToCompletion ==
    [][\A r, q \in Requests :
          (r # q /\ reqs[r].proc = reqs[q].proc /\ InProgress(r)
              /\ reqs[r].call.tool \in StoreTools)
              => reqs'[q] = reqs[q]]_vars

\* C20 witness: in one server process a Set has written the secret file, its
\* return still to come, while an invocation awaits the backend
W20_SetDuringInvoke ==
    \E r, q \in Requests :
        /\ reqs[r].proc = reqs[q].proc
        /\ reqs[r].call.tool = "set_secret" /\ reqs[r].pc = "written"
        /\ reqs[q].call.tool = "invoke_edge_function" /\ reqs[q].pc = "awaiting"


\* the keys of a mapping, in its order
KeyOrder(env) == [i \in 1..Len(env) |-> env[i][1]]

\* the entry a single line of the file parses to, <<>> for a line that has none
EntryOf(line) == parseEnvFile(line)

\* the lines, given as the entries they parse to, that hold an entry of the key
LinesOfKey(entries, key) ==
    {i \in 1..Len(entries) : entries[i] # <<>> /\ entries[i][1][1] = key}

\* the entries the lines of a text parse to, line by line
EntriesOf(content) ==
    [i \in 1..Len(split(content)) |-> EntryOf(split(content)[i])]

C22_NoCachingAcrossRequests ==
    [][(~ExternalWrite
          /\ call'.tool \in {"set_secret", "delete_secret", "list_secrets"}
          /\ call'.hasArgs /\ Threw \notin Range(events')) =>
        \A now \in {IF envFile.exists THEN parseEnvFile(envFile.content) ELSE <<>>} :
            /\ call'.tool = "list_secrets" =>
                  /\ envFile' = envFile
                  /\ Count(events', "writeFileSync:.env") = 0
                  /\ ~envFile.exists =>
                        /\ result'.success
                        /\ result'.secrets = <<>>
                        /\ Count(events', "readFileSync:.env") = 0
                  /\ envFile.exists =>
                        /\ Completed(events', "readFileSync:.env")
                        /\ result'.success =>
                              [i \in 1..Len(result'.secrets) |-> result'.secrets[i].key]
                                  = KeyOrder(now)
                        /\ ~result'.success => \E e \in Range(now) : Len(e[2]) < 3
            /\ call'.tool = "set_secret" =>
                  /\ result'.success
                  /\ envFile.exists => Completed(events', "readFileSync:.env")
                  /\ result'.message = "updated" <=> call'.key \in Range(KeyOrder(now))
                  /\ envFile'.content
                        = serializeEnvFile(MapSet(now, call'.key, call'.value))
            /\ call'.tool = "delete_secret" =>
                  /\ envFile.exists => Completed(events', "readFileSync:.env")
                  /\ result'.success <=> call'.key \in Range(KeyOrder(now))
                  /\ result'.success =>
                        envFile'.content = serializeEnvFile(MapDelete(now, call'.key))
                  /\ ~result'.success => envFile' = envFile]_vars

\* C22 witness: a List returned a key that no call of the server ever set, the
\* file having been written from outside since the last call
W22_ListSeesExternalWrite ==
    /\ call.tool = "list_secrets"
    /\ result.success
    /\ Len(result.secrets) = 2
    /\ result.secrets[2].key = <<"_", "1">>
    /\ ~MapHas(expectedEnv, <<"_", "1">>)


\* C23: a successful Set or Delete of a key leaves every other key as it was:
\* the file parses to the same other keys, each with the same value, as before
\* the call, whatever the stored values and however many rewrites came before.
C23_OtherKeysUntouched ==
    [][(IsSecretMutation(call') /\ call'.hasArgs /\ result'.success) =>
        \A before \in {parseEnvFile(envFile.content)},
           after \in {parseEnvFile(envFile'.content)} :
            /\ MapKeys(after) \ {call'.key} = MapKeys(before) \ {call'.key}
            /\ \A k \in MapKeys(before) \ {call'.key} :
                  MapHas(after, k) => MapGet(after, k) = MapGet(before, k)]_vars


\* C24: for every name the handlers accept, a Deploy and a Delete create,
\* overwrite or remove files only inside the directory of the function named:
\* the secret file, the functions directory itself, what is outside it and
\* every other function's directory are left as they were.
C24_ConfinedToNamedFunction ==
    [][(call'.tool \in {"create_edge_function", "delete_edge_function"}
          /\ call'.hasArgs) =>
        /\ envFile' = envFile
        /\ rootState' = rootState
        /\ outside' = outside
        /\ \A n \in Names \ {call'.name} : fns'[n] = fns[n]]_vars


\* C25: from a functions directory with no subdirectory, after any sequence of
\* successful Deploy and Delete calls, a List whose directory read does not
\* fail returns success:true and exactly the names deployed and not deleted
\* since, each with hasIndex true.
C25_ListMatchesHistory ==
    (call.tool = "list_edge_functions" /\ ~Failed(events, "readdirSync:dir"))
        => /\ result.success
           /\ {e.name : e \in result.functions} = deployed
           /\ \A e \in result.functions : e.hasIndex

=============================================================================
